---- MODULE Spec2Model ----
(***************************************************************************)
(* Model of "Suppl AFM/scripts/model.py": get_confidence_metrics and the   *)
(* RunModel container (constructor, init_params, eval_shape, predict with  *)
(* its early-stopping recycling loop).                                     *)
(*                                                                         *)
(* Python dicts are functions from key strings to values.  Arrays are      *)
(* records [shape, data].  Scores are small integers standing for floats;  *)
(* the blended score 0.8 * iptm + 0.2 * ptm is kept in tenths.             *)
(***************************************************************************)
EXTENDS Integers, Sequences, FiniteSets, TLC

\* ---------------------------------------------------------------- bounds
MaxRecycles == 3      \* largest iteration budget explored
MaxCalls == 2         \* public method calls made on one RunModel instance

\* ------------------------------------------------------ program constants
MsaChannels == 256
PairChannels == 128
AtomTypes == 37
Coords == 3

\* Input domains explored: score values, random seeds, sequence lengths and
\* stop thresholds (the larger threshold is one no score exceeds).
Scores == {0, 1, 2}
Seeds == {0, 1}
PredictSeeds == {0}
Lens == {2}
Thresholds == {1, 2}

\* ------------------------------------------------------------ dict helpers
EmptyDict == [k \in {} |-> 0]

Put(d, k, v) == [x \in (DOMAIN d) \cup {k} |-> IF x = k THEN v ELSE d[x]]

Update(d, e) ==
  [x \in (DOMAIN d) \cup (DOMAIN e) |-> IF x \in DOMAIN e THEN e[x] ELSE d[x]]

\* Python's None, and the truth value of an Optional[Mapping].
None == [None |-> TRUE]

Falsy(p) == p = None \/ DOMAIN p = {}

\* ------------------------------------------------------------ array helpers
Array(shape, data) == [shape |-> shape, data |-> data]

Zeros(shape) == Array(shape, <<"zeros", 0>>)

\* x[r, None]: row r of the leading axis, kept as a leading axis of length 1.
CanIndex(x, r) == Len(x.shape) >= 1 /\ r < x.shape[1]

RowSlice(x, r) == Array(<<1>> \o Tail(x.shape), <<x.data[r + 1]>>)

RECURSIVE SumSeq(_)
SumSeq(s) == IF Len(s) = 0 THEN 0 ELSE Head(s) + SumSeq(Tail(s))

\* Sum of all entries of a mask array (one row, or a stack of rows).
MaskSum(m) ==
  IF Len(m.shape) = 1 THEN SumSeq(m.data)
  ELSE SumSeq([j \in 1..Len(m.data) |-> SumSeq(m.data[j])])

\* (plddt * mask).sum(), the per-residue plddt broadcast over the mask rows.
WeightedSum(plddt, m) ==
  IF Len(m.shape) = 1
  THEN SumSeq([i \in 1..Len(m.data) |-> plddt[i] * m.data[i]])
  ELSE SumSeq([j \in 1..Len(m.data) |->
                 SumSeq([i \in 1..Len(m.data[j]) |-> plddt[i] * m.data[j][i]])])

\* ------------------------------------------- alphafold.common.confidence
ComputePlddt(logits) == logits

ComputePredictedAlignedError(logits, breaks) ==
  [aligned_confidence_probs |-> <<"probs", logits>>,
   predicted_aligned_error |-> <<"pae", logits>>,
   max_predicted_aligned_error |-> breaks]

PredictedTmScore(logits, breaks, asym_id, interface) == logits

PredictedInterfaceTmScore(logits, breaks, residue_index, pos, mask) ==
  <<"pitm", logits>>

InterfaceScore(logits, breaks, residue_index, pos, mask) ==
  <<"interface", logits>>

\* ------------------------------------------------- get_confidence_metrics
Ok(v) == [ok |-> TRUE, value |-> v]

Raise(e) == [ok |-> FALSE, value |-> e]

\* Mutant: the two interface scores computed inside the multimer branch.
PaeMetricsInterfaceInMultimerOnly(pred, multimer_mode, residue_index) ==
  LET pae == pred["predicted_aligned_error"]
      sm == pred["structure_module"]
      m1 == ComputePredictedAlignedError(pae.logits, pae.breaks)
      m2 == Put(m1, "ptm", PredictedTmScore(pae.logits, pae.breaks, None, FALSE))
  IN  IF multimer_mode
      THEN LET iptm == PredictedTmScore(pae.logits, pae.breaks, pae.asym_id, TRUE)
               m3 == Put(Put(m2, "iptm", iptm), "iptm+ptm", 8 * iptm + 2 * m2["ptm"])
           IN  Put(Put(m3, "pitm", PredictedInterfaceTmScore(pae.logits,
                         pae.breaks, residue_index, sm.final_atom_positions,
                         sm.final_atom_mask)),
                   "interface", InterfaceScore(pae.logits, pae.breaks,
                         residue_index, sm.final_atom_positions,
                         sm.final_atom_mask))
      ELSE m2

\* Lines 40-72: the metrics added when predicted_aligned_error is present.
PaeMetrics(pred, multimer_mode, residue_index) ==
  LET pae == pred["predicted_aligned_error"]
      sm == pred["structure_module"]
      m1 == ComputePredictedAlignedError(pae.logits, pae.breaks)
      m2 == Put(m1, "ptm", PredictedTmScore(pae.logits, pae.breaks, None, FALSE))
      iptm == PredictedTmScore(pae.logits, pae.breaks, pae.asym_id, TRUE)
      m3 == IF multimer_mode
            THEN Put(Put(m2, "iptm", iptm), "iptm+ptm", 8 * iptm + 2 * m2["ptm"])
            ELSE m2
  IN  Put(Put(m3, "pitm", PredictedInterfaceTmScore(pae.logits, pae.breaks,
                    residue_index, sm.final_atom_positions, sm.final_atom_mask)),
          "interface", InterfaceScore(pae.logits, pae.breaks, residue_index,
                    sm.final_atom_positions, sm.final_atom_mask))

GetConfidenceMetrics(pred, multimer_mode, residue_index) ==
  IF "predicted_lddt" \notin DOMAIN pred THEN Raise("KeyError")
  ELSE
    LET m0 == [plddt |-> ComputePlddt(pred["predicted_lddt"].logits)]
    IN  IF "predicted_aligned_error" \notin DOMAIN pred THEN Ok(m0)
        ELSE IF multimer_mode
                /\ "asym_id" \notin DOMAIN pred["predicted_aligned_error"]
             THEN Raise("KeyError")
        ELSE IF "structure_module" \notin DOMAIN pred THEN Raise("KeyError")
        ELSE Ok(Update(m0, PaeMetrics(pred, multimer_mode, residue_index)))

\* ------------------------------------------------------- network (opaque)
PRNGKey(seed) == <<"key", seed>>

\* hk.transform(_forward_fn).init for an AlphaFold network: a non-empty
\* mapping of layer names to weights, determined by the random key.
NetInit(rng, feat) == [evoformer |-> [weights |-> <<"random", rng>>]]

ToMutableDict(m) == m

\* The "prev" entry the network outputs at iteration r.
NetPrev(it, len) ==
  [prev_msa_first_row |-> Array(<<len, MsaChannels>>, <<"net", it>>),
   prev_pair |-> Array(<<len, len, PairChannels>>, <<"net", it>>),
   prev_pos |-> Array(<<len, AtomTypes, Coords>>, <<"net", it>>)]

\* The possible outputs of one network invocation at iteration it: every
\* combination of a plddt level and an optional predicted_aligned_error head,
\* each with the recycling state "prev"; one output that lacks "prev"; and
\* one malformed output (no structure_module) the confidence metrics fail on.
NetOutputs(it, len, multimer_mode) ==
  LET base(s) ==
        [predicted_lddt |-> [logits |-> [i \in 1..len |-> s]],
         structure_module |-> [final_atom_positions |-> "pos",
                               final_atom_mask |-> "mask"]]
      paeOf(t) == IF multimer_mode
                  THEN [logits |-> t, breaks |-> "breaks", asym_id |-> "asym"]
                  ELSE [logits |-> t, breaks |-> "breaks"]
      withPae(s) == {base(s)} \cup
                    {Put(base(s), "predicted_aligned_error", paeOf(t)) : t \in Scores}
      all == UNION {withPae(s) : s \in Scores}
      malformed == [predicted_lddt |-> [logits |-> [i \in 1..len |-> 0]],
                    predicted_aligned_error |-> paeOf(0)]
  IN  {Put(o, "prev", NetPrev(it, len)) : o \in all} \cup {base(0), malformed}

NetRaise == [raise |-> TRUE]

\* ---------------------------------------------------------------- inputs
Masks(len) == {[i \in 1..len |-> 1], [i \in 1..len |-> 0],
               [i \in 1..len |-> IF i = 1 THEN 1 ELSE 0]}

MultimerFeat(len, m) ==
  [aatype |-> Array(<<len>>, [i \in 1..len |-> 0]),
   residue_index |-> Array(<<len>>, [i \in 1..len |-> i]),
   seq_mask |-> Array(<<len>>, m)]

\* Single-chain features carry one row per recycling iteration; seq_mask may
\* come with fewer rows than aatype (a malformed feature set).
SingleFeat(N, rows, len, m) ==
  [aatype |-> Array(<<N, len>>, [j \in 1..N |-> [i \in 1..len |-> 0]]),
   residue_index |-> Array(<<N, len>>, [j \in 1..N |-> [i \in 1..len |-> i]]),
   seq_mask |-> Array(<<rows, len>>, [j \in 1..rows |-> m])]

RowChoices(N) == {N} \cup (IF N >= 2 THEN {1} ELSE {})

\* Feature sets a caller can hand to an instance of the given mode.
FeatsFor(multimer_mode) ==
  IF multimer_mode
  THEN UNION {{MultimerFeat(len, m) : m \in Masks(len)} : len \in Lens}
  ELSE UNION {UNION {{SingleFeat(N, rows, len, m) : m \in Masks(len)} :
                        rows \in RowChoices(N)} :
                N \in 0..MaxRecycles, len \in Lens}

Configs ==
  [multimer_mode : BOOLEAN,
   num_recycle : 0..(MaxRecycles - 1),
   stop_at_score : Thresholds,
   stop_at_score_ranker : {"plddt", "ptm"}]

CtorParams == {None, EmptyDict, [evoformer |-> [weights |-> "pretrained"]]}

\* ------------------------------------------------------------------ state
VARIABLES
  config,        \* self.config
  params,        \* self.params
  feat,          \* the caller's FeatureDict object
  pc,            \* "idle", "loop", "break", "returned", "raised"
  op,            \* the public method called last
  calls,         \* number of public calls made so far
  num_recycles,  \* predict's local: the iteration budget
  L,             \* predict's local: the sequence length
  r,             \* predict's local: the loop counter
  key,           \* predict's local: the PRNG key
  result,        \* predict's local: the current result mapping
  retval,        \* what the last call returned (None while none has)
  ctorParams,    \* the params argument of the constructor
  paramWrites,   \* assignments to self.params made after construction
  initCalls,     \* invocations of self.init
  warnings,      \* 'Initialized parameters randomly' warnings logged
  feat0,         \* the caller's FeatureDict as it was when predict was called
  applyLog,      \* arguments of each self.apply invocation of this predict
  netLog,        \* the "prev" entry (or None) output by each invocation
  scoreLog,      \* how each iteration's mean_score compares to the threshold
  lastNet,       \* raw output of the last self.apply invocation
  lastConf       \* confidence metrics computed for lastNet

vars == <<config, params, feat, pc, op, calls, num_recycles, L, r, key, result,
          retval, ctorParams, paramWrites, initCalls, warnings, feat0,
          applyLog, netLog, scoreLog, lastNet, lastConf>>

\* ------------------------------------------------------ RunModel.__init__
Init ==
  /\ config \in Configs
  /\ config.multimer_mode \/ config.num_recycle = 0
  /\ ctorParams \in CtorParams
  /\ params = ctorParams
  /\ feat \in FeatsFor(config.multimer_mode)
  /\ pc = "idle"
  /\ op = "__init__"
  /\ calls = 0
  /\ num_recycles = 0
  /\ L = 0
  /\ r = 0
  /\ key = None
  /\ result = None
  /\ retval = None
  /\ paramWrites = 0
  /\ initCalls = 0
  /\ warnings = 0
  /\ feat0 = None
  /\ applyLog = << >>
  /\ netLog = << >>
  /\ scoreLog = << >>
  /\ lastNet = None
  /\ lastConf = None

\* A public method can be called when no call is in progress.
CanCall == pc \in {"idle", "returned", "raised"} /\ calls < MaxCalls

\* The locals of a finished predict call are gone when the next call starts.
NoPredict ==
  /\ num_recycles' = 0
  /\ L' = 0
  /\ r' = 0
  /\ key' = None
  /\ result' = None
  /\ feat0' = None
  /\ applyLog' = << >>
  /\ netLog' = << >>
  /\ scoreLog' = << >>
  /\ lastNet' = None
  /\ lastConf' = None

\* --------------------------------------------------- RunModel.init_params
\* Mutant: parameters re-initialized at every call.
NeedsInitAlways(p) == TRUE

\* Mutant: only None counts as "no parameters".
NeedsInitIfNone(p) == p = None

\* Line 121: `if not self.params`.
NeedsInit(p) == Falsy(p)

InitParamsValue(p, f, seed) ==
  IF NeedsInit(p) THEN ToMutableDict(NetInit(PRNGKey(seed), f)) ELSE p

InitParamsEffect(f, seed) ==
  /\ params' = InitParamsValue(params, f, seed)
  /\ paramWrites' = paramWrites + (IF NeedsInit(params) THEN 1 ELSE 0)
  /\ initCalls' = initCalls + (IF NeedsInit(params) THEN 1 ELSE 0)
  /\ warnings' = warnings + (IF NeedsInit(params) THEN 1 ELSE 0)

InitParams(seed) ==
  /\ CanCall
  /\ InitParamsEffect(feat, seed)
  /\ op' = "init_params"
  /\ calls' = calls + 1
  /\ pc' = "returned"
  /\ retval' = None
  /\ NoPredict
  /\ UNCHANGED <<config, feat, ctorParams>>

\* ---------------------------------------------------- RunModel.eval_shape
ShapeOf(p, k, f) == [shape_of |-> DOMAIN f]

EvalShape ==
  /\ CanCall
  /\ InitParamsEffect(feat, 0)
  /\ op' = "eval_shape"
  /\ calls' = calls + 1
  /\ pc' = "returned"
  /\ retval' = ShapeOf(params', PRNGKey(0), feat)
  /\ NoPredict
  /\ UNCHANGED <<config, feat, ctorParams>>

\* ------------------------------------------------------- RunModel.predict
ZeroPrev(len) ==
  [prev_msa_first_row |-> Zeros(<<len, MsaChannels>>),
   prev_pair |-> Zeros(<<len, len, PairChannels>>),
   prev_pos |-> Zeros(<<len, AtomTypes, Coords>>)]

\* Lines 185-190.
NumRecycles(cfg, aatype) ==
  IF cfg.multimer_mode THEN cfg.num_recycle + 1 ELSE aatype.shape[1]

SeqLen(cfg, aatype) ==
  IF cfg.multimer_mode THEN aatype.shape[1] ELSE aatype.shape[2]

\* Lines 181-197: everything before the loop.
PredictStart(seed) ==
  /\ CanCall
  /\ InitParamsEffect(feat, 0)
  /\ op' = "predict"
  /\ calls' = calls + 1
  /\ num_recycles' = NumRecycles(config, feat["aatype"])
  /\ L' = SeqLen(config, feat["aatype"])
  /\ result' = [prev |-> ZeroPrev(L')]
  /\ r' = 0
  /\ key' = PRNGKey(seed)
  /\ pc' = "loop"
  /\ retval' = None
  /\ feat0' = feat
  /\ applyLog' = << >>
  /\ netLog' = << >>
  /\ scoreLog' = << >>
  /\ lastNet' = None
  /\ lastConf' = None
  /\ UNCHANGED <<config, feat, ctorParams>>

\* Mutant: an off-by-one loop bound.
LoopGuardInclusive(i, n) == i <= n

\* Line 198.
LoopGuard(i, n) == i < n

\* Lines 204-205: single-chain slicing succeeds when every array has row i
\* (and residue_index has a row 0).
SliceOk(f, i) ==
  /\ CanIndex(f["residue_index"], 0)
  /\ \A k \in DOMAIN f : CanIndex(f[k], i)

\* Lines 199-205: the caller's mapping after the step, and the feature slice.
FeatAfterSelect(f, i, multimer_mode) ==
  IF multimer_mode THEN Put(f, "iter", Array(<< >>, i)) ELSE f

SubFeat(f, i, multimer_mode) ==
  IF multimer_mode THEN FeatAfterSelect(f, i, multimer_mode)
  ELSE [k \in DOMAIN f |-> RowSlice(f[k], i)]

ResIndex(f, multimer_mode) ==
  IF multimer_mode THEN f["residue_index"]
  ELSE Array(Tail(f["residue_index"].shape), f["residue_index"].data[1])

\* Mutant: the zeroed PrevState is injected at every iteration.
PrevOfZeros(res) == [k \in DOMAIN res["prev"] |-> Zeros(res["prev"][k].shape)]

\* Line 206: the PrevState injected into the slice.
PrevOf(res) == res["prev"]

\* Mutant: sub_feat aliases the caller's mapping in both modes.
FeatAfterInjectAlias(f, sub_feat, multimer_mode) == sub_feat

\* Line 206 writes through sub_feat; in multimer mode sub_feat is the caller's
\* mapping itself, in single-chain mode it is the fresh mapping tree_map built.
FeatAfterInject(f, sub_feat, multimer_mode) ==
  IF multimer_mode THEN sub_feat ELSE f

\* Lines 209-212: mean_score as a fraction num / den.
MeanScore(confidences, f, ranker) ==
  IF ranker = "plddt"
  THEN [num |-> WeightedSum(confidences["plddt"], f["seq_mask"]),
        den |-> MaskSum(f["seq_mask"])]
  ELSE [num |-> confidences["ptm"], den |-> 1]

MeanScoreOk(confidences, ranker) ==
  ranker = "plddt" \/ "ptm" \in DOMAIN confidences

\* Mutant: the loop also stops when mean_score equals the threshold.
ExceedsOrEquals(ms, thr) == ms.den > 0 /\ ms.num >= thr * ms.den

\* Line 215: mean_score > stop_at_score (0 / 0 is nan, which exceeds nothing).
Exceeds(ms, thr) == ms.den > 0 /\ ms.num > thr * ms.den

Compare(ms, thr) ==
  IF ms.den = 0 THEN "nan"
  ELSE IF ms.num > thr * ms.den THEN "gt"
  ELSE IF ms.num = thr * ms.den THEN "eq"
  ELSE "lt"

\* Line 213.
Merge(res, confidences) == Update(res, confidences)

\* Mutant: the iteration count is returned instead of the last index.
ReturnCount(i) == i

\* Line 219.
ReturnIndex(i) == i - 1

\* Mutant: a failing iteration is swallowed and the loop goes on.
RaisedRetry(f, log) ==
  /\ pc' = "loop"
  /\ feat' = f
  /\ applyLog' = log
  /\ UNCHANGED <<config, params, op, calls, num_recycles, L, r, key, result,
                 retval, ctorParams, paramWrites, initCalls, warnings, feat0,
                 netLog, scoreLog, lastNet, lastConf>>

\* An exception leaves predict: nothing is returned.
Raised(f, log) ==
  /\ pc' = "raised"
  /\ feat' = f
  /\ applyLog' = log
  /\ UNCHANGED <<config, params, op, calls, num_recycles, L, r, key, result,
                 retval, ctorParams, paramWrites, initCalls, warnings, feat0,
                 netLog, scoreLog, lastNet, lastConf>>

\* Lines 198-216: one pass through the loop body; `out` is what self.apply does.
Iterate(out) ==
  /\ pc = "loop"
  /\ LoopGuard(r, num_recycles)
  /\ LET mm == config.multimer_mode
         feat1 == FeatAfterSelect(feat, r, mm)
         sub_feat == Put(SubFeat(feat, r, mm), "prev", PrevOf(result))
         feat2 == FeatAfterInject(feat, sub_feat, mm)
         log == Append(applyLog, [r |-> r, params |-> params, key |-> key,
                                  sub_feat |-> sub_feat])
         conf == GetConfidenceMetrics(out, mm, ResIndex(feat, mm))
         ms == MeanScore(conf.value, feat2, config.stop_at_score_ranker)
     IN  IF ~mm /\ ~SliceOk(feat, r) THEN Raised(feat, applyLog)
         ELSE IF "prev" \notin DOMAIN result THEN Raised(feat1, applyLog)
         ELSE IF out = NetRaise THEN Raised(feat2, log)
         ELSE IF ~conf.ok THEN Raised(feat2, log)
         ELSE IF ~MeanScoreOk(conf.value, config.stop_at_score_ranker)
              THEN Raised(feat2, log)
         ELSE /\ feat' = feat2
              /\ applyLog' = log
              /\ netLog' = Append(netLog, IF "prev" \in DOMAIN out
                                          THEN out["prev"] ELSE None)
              /\ scoreLog' = Append(scoreLog, Compare(ms, config.stop_at_score))
              /\ lastNet' = out
              /\ lastConf' = conf.value
              /\ result' = Merge(out, conf.value)
              /\ r' = r + 1
              /\ pc' = IF Exceeds(ms, config.stop_at_score) THEN "break" ELSE "loop"
              /\ UNCHANGED <<config, params, op, calls, num_recycles, L, key,
                             retval, ctorParams, paramWrites, initCalls,
                             warnings, feat0>>

\* Lines 218-219.
Return ==
  /\ pc = "break" \/ (pc = "loop" /\ ~LoopGuard(r, num_recycles))
  /\ pc' = "returned"
  /\ retval' = [result |-> result, index |-> ReturnIndex(r)]
  /\ UNCHANGED <<config, params, feat, op, calls, num_recycles, L, r, key,
                 result, ctorParams, paramWrites, initCalls, warnings, feat0,
                 applyLog, netLog, scoreLog, lastNet, lastConf>>

Next ==
  \/ \E seed \in Seeds : InitParams(seed)
  \/ EvalShape
  \/ \E seed \in PredictSeeds : PredictStart(seed)
  \/ \E out \in NetOutputs(r, L, config.multimer_mode) \cup {NetRaise} : Iterate(out)
  \/ Return

Spec == Init /\ [][Next]_vars

\* ------------------------------------------------------------------ claims
PredictReturned == op = "predict" /\ pc = "returned"

PrevStateKeys == {"prev_msa_first_row", "prev_pair", "prev_pos"}

Injected == {"prev", "iter"}

\* Positions of scoreLog where mean_score exceeded the threshold.
ExceededAt == {i \in 1..Len(scoreLog) : scoreLog[i] = "gt"}

\* C1: with a budget N >= 1, predict returns the index of the first iteration
\* whose mean_score exceeds stop_at_score and executes no iteration after it;
\* when no mean_score exceeds the threshold (equality included) exactly N
\* iterations are executed and the index N - 1 is returned.
C1_StoppingRule ==
  /\ op = "predict" =>
       \A i \in ExceededAt : i = Len(scoreLog) /\ Len(applyLog) = i /\ pc # "loop"
  /\ (PredictReturned /\ num_recycles >= 1) =>
       IF ExceededAt # {}
       THEN \A i \in ExceededAt :
              /\ retval.index = i - 1
              /\ \A j \in 1..(i - 1) : scoreLog[j] # "gt"
       ELSE /\ Len(applyLog) = num_recycles
            /\ Len(scoreLog) = num_recycles
            /\ retval.index = num_recycles - 1

C1_Witness ==
  /\ PredictReturned
  /\ num_recycles = 3
  /\ scoreLog = <<"eq", "gt">>
  /\ retval.index = 1

\* C2: predict invokes the network at most N = num_recycles times, the loop
\* counter never passes N, a running loop can always take its next step, and
\* the returned index is strictly less than N.
C2_BoundedLoop ==
  op = "predict" =>
    /\ Len(applyLog) <= num_recycles
    /\ r <= num_recycles
    /\ r >= 0
    /\ pc \in {"loop", "break"} => ENABLED Next
    /\ pc = "returned" => retval.index < num_recycles

C2_Witness ==
  /\ PredictReturned
  /\ num_recycles >= 3
  /\ Len(applyLog) = num_recycles
  /\ retval.index = num_recycles - 1

\* C3 as stated: whenever predict returns, the returned mapping is the last
\* network output merged with that iteration's confidence metrics (it has the
\* network's keys and plddt) and the index is the number of invocations
\* minus one.
C3_Original ==
  PredictReturned =>
    /\ Len(applyLog) >= 1
    /\ retval.result = Update(lastNet, lastConf)
    /\ DOMAIN lastNet \subseteq DOMAIN retval.result
    /\ "plddt" \in DOMAIN retval.result
    /\ retval.index = Len(applyLog) - 1

\* C3 amended: when predict returns after at least one iteration, the returned
\* mapping is the last network output merged with that iteration's confidence
\* metrics and the index is the number of invocations minus one; with a
\* budget of 0 no iteration runs, the mapping holds only the zeroed PrevState
\* under "prev" and the index is -1.
C3_ReturnsLastIteration ==
  PredictReturned =>
    /\ retval.index = Len(applyLog) - 1
    /\ IF Len(applyLog) >= 1
       THEN /\ retval.result = Update(lastNet, lastConf)
            /\ lastConf = GetConfidenceMetrics(lastNet, config.multimer_mode,
                                               ResIndex(feat0, config.multimer_mode)).value
            /\ DOMAIN lastNet \subseteq DOMAIN retval.result
            /\ "plddt" \in DOMAIN retval.result
            /\ retval.result["plddt"] = lastConf["plddt"]
       ELSE /\ num_recycles = 0
            /\ retval.result = [prev |-> ZeroPrev(L)]
            /\ retval.index = -1

C3_Witness ==
  /\ PredictReturned
  /\ Len(applyLog) = 2
  /\ retval.index = 1
  /\ "ptm" \in DOMAIN retval.result

\* C4: a call of init_params (direct, or made by eval_shape or predict) that
\* finds non-empty parameters, supplied at construction or produced by an
\* earlier call, leaves self.params as it is, does not invoke the network's
\* init function and logs no warning; one call followed by another yields
\* the parameters the first call left.
C4_Idempotent ==
  /\ [][(calls' = calls + 1 /\ ~Falsy(params)) =>
          /\ params' = params
          /\ initCalls' = initCalls
          /\ warnings' = warnings
          /\ paramWrites' = paramWrites]_vars
  /\ [](\A s1, s2 \in Seeds :
          InitParamsValue(InitParamsValue(params, feat, s1), feat, s2)
            = InitParamsValue(params, feat, s1))

C4_Witness ==
  /\ op = "init_params"
  /\ calls = 2
  /\ ctorParams = None
  /\ paramWrites = 1
  /\ initCalls = 1
  /\ warnings = 1

C6_ApplyArgs ==
  \A i \in 1..Len(applyLog) :
    /\ ~Falsy(applyLog[i].params)
    /\ applyLog[i].params = params
    /\ "prev" \in DOMAIN applyLog[i].sub_feat
    /\ DOMAIN applyLog[i].sub_feat["prev"] = PrevStateKeys
    /\ applyLog[i].r = 0 => applyLog[i].sub_feat["prev"] = ZeroPrev(L)

C6_Witness ==
  /\ Len(applyLog) >= 2
  /\ Falsy(ctorParams)
  /\ paramWrites = 1

\* C7: the metrics always hold plddt; without predicted_aligned_error in the
\* prediction plddt is the only key; with it ptm, pitm and interface are
\* there in both modes, and iptm and iptm+ptm exactly in multimer mode.
C7_ConfidenceKeys ==
  lastConf # None =>
    LET K == DOMAIN lastConf
        mm == config.multimer_mode
    IN  /\ "plddt" \in K
        /\ "predicted_aligned_error" \notin DOMAIN lastNet => K = {"plddt"}
        /\ "predicted_aligned_error" \in DOMAIN lastNet =>
             /\ {"ptm", "pitm", "interface"} \subseteq K
             /\ "iptm" \in K <=> mm
             /\ "iptm+ptm" \in K <=> mm

C7_Witness ==
  /\ lastConf # None
  /\ ~config.multimer_mode
  /\ "predicted_aligned_error" \in DOMAIN lastNet
  /\ "pitm" \in DOMAIN lastConf
  /\ "iptm" \notin DOMAIN lastConf

\* C8 as stated: at every iteration predict writes "prev" (the current
\* PrevState) into the caller's FeatureDict, and "iter" in multimer mode
\* only; all other fields and keys of the caller's mapping stay as they were.
C8_Original ==
  (op = "predict" /\ Len(scoreLog) >= 1) =>
    /\ "prev" \in DOMAIN feat
    /\ feat["prev"] = applyLog[Len(scoreLog)].sub_feat["prev"]
    /\ config.multimer_mode => "iter" \in DOMAIN feat
    /\ (DOMAIN feat) \ Injected = (DOMAIN feat0) \ Injected
    /\ \A k \in (DOMAIN feat0) \ Injected : feat[k] = feat0[k]

\* C8 amended: in multimer mode every iteration writes "iter" (the iteration
\* index) and "prev" (the current PrevState) into the caller's FeatureDict and
\* nothing else; in single-chain mode predict leaves the caller's FeatureDict
\* entirely unchanged ("prev" goes into the fresh sliced copy only).
C8_FeatFrame ==
  op = "predict" =>
    /\ (DOMAIN feat) \ Injected = (DOMAIN feat0) \ Injected
    /\ \A k \in (DOMAIN feat0) \ Injected : feat[k] = feat0[k]
    /\ ~config.multimer_mode => feat = feat0
    /\ (config.multimer_mode /\ Len(scoreLog) >= 1) =>
         /\ Injected \subseteq DOMAIN feat
         /\ pc # "raised" =>
              /\ feat["iter"] = Array(<< >>, Len(scoreLog) - 1)
              /\ feat["prev"] = applyLog[Len(scoreLog)].sub_feat["prev"]
              /\ feat = applyLog[Len(scoreLog)].sub_feat

C8_Witness ==
  /\ PredictReturned
  /\ ~config.multimer_mode
  /\ Len(scoreLog) >= 2
  /\ "prev" \notin DOMAIN feat
  /\ "prev" \in DOMAIN applyLog[1].sub_feat

\* C9: when a step of iteration r raises, predict returns nothing, the
\* network has been invoked at most once per iteration index, and nothing
\* more of this predict call is executed.
C9_FailFast ==
  /\ [](op = "predict" =>
          /\ \A i \in 1..Len(applyLog) : applyLog[i].r = i - 1
          /\ Len(applyLog) <= Len(scoreLog) + 1)
  /\ [](pc = "raised" =>
          /\ retval = None
          /\ Len(scoreLog) = r
          /\ Len(applyLog) <= r + 1)
  /\ [][pc = "raised" => (calls' = calls + 1 /\ pc' # "raised")]_vars

C9_Witness ==
  /\ pc = "raised"
  /\ Len(scoreLog) = 1
  /\ Len(applyLog) = 2
  /\ retval = None

\* C10: iteration 0 is invoked with the zeroed PrevState sized by L, and
\* every later iteration with the "prev" entry the network output one
\* iteration earlier.
C10_PrevChaining ==
  \A i \in 1..Len(applyLog) :
    /\ i = 1 => applyLog[i].sub_feat["prev"] = ZeroPrev(L)
    /\ i > 1 => /\ Len(netLog) >= i - 1
                /\ applyLog[i].sub_feat["prev"] = netLog[i - 1]
                /\ applyLog[i].sub_feat["prev"] = NetPrev(i - 2, L)
                /\ applyLog[i].sub_feat["prev"] # ZeroPrev(L)

C10_Witness ==
  /\ Len(applyLog) = 3
  /\ applyLog[3].sub_feat["prev"] = netLog[2]
  /\ netLog[2] # netLog[1]
  /\ "ptm" \in DOMAIN result

====
